---- MODULE Spec2Model ----
(***************************************************************************)
(* Model of soil_app.py: the Streamlit page of the Soil Stabilization      *)
(* Advisor.  The sidebar widgets are the program's state; pressing the     *)
(* Analyze button runs calculate_recommendations and estimate_cost on the  *)
(* widget values.  calculate_recommendations is modelled block by block    *)
(* (RULE 1 .. RULE 4, strengths, maximum, selection, improvement/return),  *)
(* with its local variables in `locals`.                                   *)
(*                                                                         *)
(* Python floats are modelled as exact rationals <<numerator,              *)
(* denominator>> in lowest terms (denominator > 0).                        *)
(*                                                                         *)
(* Spec is the page: widget changes and button presses in any order.       *)
(* SpecCalc is one call of the two functions on each combination of the    *)
(* sampled argument values.                                                *)
(***************************************************************************)
EXTENDS Integers, Sequences, FiniteSets, TLC

VARIABLES soil_type, clay, silt, moisture, pi, ph, curing_days, budget,
          pc, locals, results, estimated_cost,
          edits      \* how many times a widget was changed since page load

widgets == <<soil_type, clay, silt, moisture, pi, ph, curing_days, budget>>
vars == <<soil_type, clay, silt, moisture, pi, ph, curing_days, budget,
          pc, locals, results, estimated_cost, edits>>

----------------------------------------------------------------------------
(* Exact rational arithmetic standing for the float arithmetic. *)

Abs(x) == IF x < 0 THEN -x ELSE x

RECURSIVE GCD(_, _)
GCD(a, b) == IF b = 0 THEN a ELSE GCD(b, a % b)

\* n/d in lowest terms, d > 0
R(n, d) ==
    LET g == GCD(Abs(n), Abs(d))
        s == IF d < 0 THEN -1 ELSE 1
    IN  <<(s * n) \div g, (s * d) \div g>>

Whole(n) == <<n, 1>>

LCM(a, b) == (a \div GCD(a, b)) * b

RAdd(x, y) ==
    LET l == LCM(x[2], y[2])
    IN  R(x[1] * (l \div x[2]) + y[1] * (l \div y[2]), l)

RSub(x, y) == RAdd(x, <<-y[1], y[2]>>)

RMul(x, y) ==
    LET g1 == GCD(Abs(x[1]), y[2])
        g2 == GCD(Abs(y[1]), x[2])
    IN  R((x[1] \div g1) * (y[1] \div g2), (x[2] \div g2) * (y[2] \div g1))

RDiv(x, y) == RMul(x, R(y[2], y[1]))

RLt(x, y) ==
    LET l == LCM(x[2], y[2])
    IN  x[1] * (l \div x[2]) < y[1] * (l \div y[2])

RLe(x, y) == ~RLt(y, x)

RMax(x, y) == IF RLt(x, y) THEN y ELSE x

\* Python max(a, b, c)
RMax3(x, y, z) == RMax(RMax(x, y), z)

----------------------------------------------------------------------------
(* The widgets' domains. *)

\* How many widget changes a session of the page makes at most.
MaxEdits == 3

\* How far past each moisture threshold (below 10, above 25) the sampled
\* moisture values reach.
Window == 1

\* the selectbox options (line 56)
SoilTypes ==
    {"CL (Lean Clay)", "ML (Silt)", "SM (Silty Sand)",
     "SP (Poorly Graded Sand)", "CH (Fat Clay)"}

\* a label as its sequence of characters
Chars(s) ==
    CASE s = "CL (Lean Clay)" ->
           <<"C","L"," ","(","L","e","a","n"," ","C","l","a","y",")">>
      [] s = "ML (Silt)" ->
           <<"M","L"," ","(","S","i","l","t",")">>
      [] s = "SM (Silty Sand)" ->
           <<"S","M"," ","(","S","i","l","t","y"," ","S","a","n","d",")">>
      [] s = "SP (Poorly Graded Sand)" ->
           <<"S","P"," ","(","P","o","o","r","l","y"," ",
             "G","r","a","d","e","d"," ","S","a","n","d",")">>
      [] s = "CH (Fat Clay)" ->
           <<"C","H"," ","(","F","a","t"," ","C","l","a","y",")">>
      [] s = "Clay" -> <<"C","l","a","y">>
      [] s = "Sand" -> <<"S","a","n","d">>

CuringDays == {3, 7, 14, 28, 56, 90}

Budgets == {"Low", "Medium", "High", "No Limit"}

Methods == {"Mycelium", "MICP", "Hybrid"}

\* The code reads clay, sand, moisture and ph only through the comparisons
\* clay > 40, sand > 60, moisture > 25, moisture < 10 and 6.5 <= ph <= 8.5,
\* so the values below stand for every side of every comparison.
\*
\* sampled values of the number inputs (0..100): the defaults (58, 42), the
\* mixed sample (30, 40), clay on both sides of 40 and, with clay = 30,
\* sand = 61 and sand = 60
ClayVals == {30, 40, 41, 58}
SiltVals == {9, 10, 40, 42}

\* sampled slider values: the default and the neighbourhood of each threshold
MoistureVals == {13} \cup ((10 - Window) .. 10) \cup (25 .. (25 + Window))
PiVals == {12, 13}
PhVals == {R(t, 10) : t \in {64, 65, 70, 85, 86}}

sand == 100 - clay - silt

----------------------------------------------------------------------------
(* Values of locals that are not bound yet. *)

Unbound == <<0, 0>>

NoLocals ==
    [primary_method |-> "", myc_percentage |-> Unbound,
     micp_percentage |-> Unbound, myc_strength |-> Unbound,
     micp_strength |-> Unbound, hybrid_strength |-> Unbound,
     max_strength |-> Unbound, final_method |-> "",
     final_strength |-> Unbound, final_myc |-> Unbound,
     final_micp |-> Unbound]

NoResults ==
    [primary_method |-> "", final_method |-> "", final_strength |-> Unbound,
     myc_percentage |-> Unbound, micp_percentage |-> Unbound,
     improvement |-> Unbound, base_strength |-> Unbound,
     myc_strength |-> Unbound, micp_strength |-> Unbound,
     hybrid_strength |-> Unbound]

Init ==
    /\ soil_type = "CL (Lean Clay)"
    /\ clay = 58
    /\ silt = 42
    /\ moisture = 13
    /\ pi = 12
    /\ ph = R(70, 10)
    /\ curing_days = 28
    /\ budget = "Medium"
    /\ pc = "idle"
    /\ locals = NoLocals
    /\ results = NoResults
    /\ estimated_cost = Unbound
    /\ edits = 0

----------------------------------------------------------------------------
(* The sidebar widgets (lines 50-81).  Changing a widget reruns the script *)
(* with the button not pressed, so no results are computed or shown.       *)

Idle == pc \in {"idle", "shown"}

Rerun ==
    /\ edits < MaxEdits
    /\ edits' = edits + 1
    /\ pc' = "idle"
    /\ locals' = NoLocals
    /\ results' = NoResults
    /\ estimated_cost' = Unbound

SetSoilType ==
    /\ Idle
    /\ \E v \in SoilTypes : soil_type' = v
    /\ Rerun
    /\ UNCHANGED <<clay, silt, moisture, pi, ph, curing_days, budget>>

SetClay ==
    /\ Idle
    /\ \E v \in ClayVals : clay' = v
    /\ Rerun
    /\ UNCHANGED <<soil_type, silt, moisture, pi, ph, curing_days, budget>>

SetSilt ==
    /\ Idle
    /\ \E v \in SiltVals : silt' = v
    /\ Rerun
    /\ UNCHANGED <<soil_type, clay, moisture, pi, ph, curing_days, budget>>

SetMoisture ==
    /\ Idle
    /\ \E v \in MoistureVals : moisture' = v
    /\ Rerun
    /\ UNCHANGED <<soil_type, clay, silt, pi, ph, curing_days, budget>>

SetPi ==
    /\ Idle
    /\ \E v \in PiVals : pi' = v
    /\ Rerun
    /\ UNCHANGED <<soil_type, clay, silt, moisture, ph, curing_days, budget>>

SetPh ==
    /\ Idle
    /\ \E v \in PhVals : ph' = v
    /\ Rerun
    /\ UNCHANGED <<soil_type, clay, silt, moisture, pi, curing_days, budget>>

SetCuringDays ==
    /\ Idle
    /\ \E v \in CuringDays : curing_days' = v
    /\ Rerun
    /\ UNCHANGED <<soil_type, clay, silt, moisture, pi, ph, budget>>

SetBudget ==
    /\ Idle
    /\ \E v \in Budgets : budget' = v
    /\ Rerun
    /\ UNCHANGED <<soil_type, clay, silt, moisture, pi, ph, curing_days>>

----------------------------------------------------------------------------
(* calculate_recommendations (lines 84-166), one operator per block. *)

\* Python's `sub in s` on strings
StrContains(sub, s) ==
    LET p == Chars(sub)
        t == Chars(s)
    IN  \E i \in 1 .. (Len(t) - Len(p) + 1) :
            SubSeq(t, i, i + Len(p) - 1) = p

base_strength == R(225, 1000)

\* Rule 1 with the sand test ahead of the clay test
Rule1DosageSandFirst(st, c, sa) ==
    IF StrContains("Sand", st) \/ sa > 60
    THEN [primary_method |-> "MICP",
          myc_percentage |-> R(250, 10), micp_percentage |-> R(20, 10)]
    ELSE IF StrContains("Clay", st) \/ c > 40
    THEN [primary_method |-> "Mycelium",
          myc_percentage |-> R(50, 10), micp_percentage |-> R(5, 10)]
    ELSE [primary_method |-> "Hybrid",
          myc_percentage |-> R(150, 10), micp_percentage |-> R(10, 10)]

\* Rule 1 deciding on the percentages alone, the label ignored
Rule1DosageNoLabel(st, c, sa) ==
    IF c > 40
    THEN [primary_method |-> "Mycelium",
          myc_percentage |-> R(50, 10), micp_percentage |-> R(5, 10)]
    ELSE IF sa > 60
    THEN [primary_method |-> "MICP",
          myc_percentage |-> R(250, 10), micp_percentage |-> R(20, 10)]
    ELSE [primary_method |-> "Hybrid",
          myc_percentage |-> R(150, 10), micp_percentage |-> R(10, 10)]

\* RULE 1: the method and the base dosages by soil type
Rule1Dosage(st, c, sa) ==
    IF StrContains("Clay", st) \/ c > 40
    THEN [primary_method |-> "Mycelium",
          myc_percentage |-> R(50, 10), micp_percentage |-> R(5, 10)]
    ELSE IF StrContains("Sand", st) \/ sa > 60
    THEN [primary_method |-> "MICP",
          myc_percentage |-> R(250, 10), micp_percentage |-> R(20, 10)]
    ELSE [primary_method |-> "Hybrid",
          myc_percentage |-> R(150, 10), micp_percentage |-> R(10, 10)]

\* Rule 2 with an inclusive upper threshold
Rule2MycInclusive(myc, m) == IF m >= 25 THEN RMul(myc, R(8, 10)) ELSE myc

\* RULE 2: adjust on moisture
Rule2Myc(myc, m) == IF m > 25 THEN RMul(myc, R(8, 10)) ELSE myc

Rule2Micp(micp, m) ==
    IF m > 25 THEN micp
    ELSE IF m < 10 THEN RMul(micp, R(12, 10)) ELSE micp

\* RULE 3: adjust on pH
Rule3Micp(micp, p) ==
    IF RLe(R(65, 10), p) /\ RLe(p, R(85, 10))
    THEN RMul(micp, R(13, 10)) ELSE micp

\* RULE 4: adjust on curing time
curing_factor(cd) == R(cd, 28)

MycStrength(myc) ==
    RMul(base_strength, RAdd(Whole(1), RMul(myc, R(4, 100))))

\* the MICP formula with the coefficient 0.08
MicpStrengthWeak(micp) ==
    RMul(base_strength, RAdd(Whole(1), RMul(micp, R(8, 100))))

MicpStrength(micp) ==
    RMul(base_strength, RAdd(Whole(1), RMul(micp, R(8, 10))))

\* the hybrid formula without the synergy factor 1.2
HybridStrengthNoSynergy(myc, micp) ==
    RMul(base_strength,
         RAdd(RAdd(Whole(1), RMul(myc, R(2, 100))), RMul(micp, R(6, 10))))

HybridStrength(myc, micp) ==
    RMul(RMul(base_strength,
              RAdd(RAdd(Whole(1), RMul(myc, R(2, 100))),
                   RMul(micp, R(6, 10)))),
         R(12, 10))

\* the selection without the 0.3 MPa test
SelectFinalNoThreshold(l) ==
    IF l.max_strength = l.hybrid_strength
    THEN [final_method |-> "Hybrid", final_strength |-> l.hybrid_strength,
          final_myc |-> l.myc_percentage, final_micp |-> l.micp_percentage]
    ELSE IF RLt(l.micp_strength, l.myc_strength)
    THEN [final_method |-> "Mycelium", final_strength |-> l.myc_strength,
          final_myc |-> l.myc_percentage, final_micp |-> Whole(0)]
    ELSE [final_method |-> "MICP", final_strength |-> l.micp_strength,
          final_myc |-> Whole(0), final_micp |-> l.micp_percentage]

\* the selection reporting max_strength whatever the method
SelectFinalMaxStrength(l) ==
    IF l.max_strength = l.hybrid_strength
       /\ (RLt(R(3, 10), l.myc_strength) \/ RLt(R(3, 10), l.micp_strength))
    THEN [final_method |-> "Hybrid", final_strength |-> l.max_strength,
          final_myc |-> l.myc_percentage, final_micp |-> l.micp_percentage]
    ELSE IF RLt(l.micp_strength, l.myc_strength)
    THEN [final_method |-> "Mycelium", final_strength |-> l.max_strength,
          final_myc |-> l.myc_percentage, final_micp |-> Whole(0)]
    ELSE [final_method |-> "MICP", final_strength |-> l.max_strength,
          final_myc |-> Whole(0), final_micp |-> l.micp_percentage]

\* the if / elif / else of lines 136-150
SelectFinal(l) ==
    IF l.max_strength = l.hybrid_strength
       /\ (RLt(R(3, 10), l.myc_strength) \/ RLt(R(3, 10), l.micp_strength))
    THEN [final_method |-> "Hybrid", final_strength |-> l.hybrid_strength,
          final_myc |-> l.myc_percentage, final_micp |-> l.micp_percentage]
    ELSE IF RLt(l.micp_strength, l.myc_strength)
    THEN [final_method |-> "Mycelium", final_strength |-> l.myc_strength,
          final_myc |-> l.myc_percentage, final_micp |-> Whole(0)]
    ELSE [final_method |-> "MICP", final_strength |-> l.micp_strength,
          final_myc |-> Whole(0), final_micp |-> l.micp_percentage]

\* the improvement taken from max_strength
ImprovementOfMax(l) ==
    RMul(RDiv(RSub(l.max_strength, base_strength), base_strength),
         Whole(100))

Improvement(l) ==
    RMul(RDiv(RSub(l.final_strength, base_strength), base_strength),
         Whole(100))

ReturnValue(l) ==
    [primary_method |-> l.primary_method,
     final_method |-> l.final_method,
     final_strength |-> l.final_strength,
     myc_percentage |-> l.final_myc,
     micp_percentage |-> l.final_micp,
     improvement |-> Improvement(l),
     base_strength |-> base_strength,
     myc_strength |-> l.myc_strength,
     micp_strength |-> l.micp_strength,
     hybrid_strength |-> l.hybrid_strength]

\* the whole function, as one expression of its arguments
calculate_recommendations(c, si, sa, m, p_i, p, st, cd) ==
    LET r1 == Rule1Dosage(st, c, sa)
        myc == RMul(Rule2Myc(r1.myc_percentage, m), curing_factor(cd))
        micp == RMul(Rule3Micp(Rule2Micp(r1.micp_percentage, m), p),
                     curing_factor(cd))
        l0 == [NoLocals EXCEPT
                  !.primary_method = r1.primary_method,
                  !.myc_percentage = myc,
                  !.micp_percentage = micp,
                  !.myc_strength = MycStrength(myc),
                  !.micp_strength = MicpStrength(micp),
                  !.hybrid_strength = HybridStrength(myc, micp)]
        l1 == [l0 EXCEPT
                  !.max_strength = RMax3(l0.myc_strength, l0.micp_strength,
                                         l0.hybrid_strength)]
        f == SelectFinal(l1)
    IN  ReturnValue([l1 EXCEPT
                        !.final_method = f.final_method,
                        !.final_strength = f.final_strength,
                        !.final_myc = f.final_myc,
                        !.final_micp = f.final_micp])

\* the button: the script calls calculate_recommendations on the widgets
ClickAnalyze ==
    /\ Idle
    /\ pc' = "rule1"
    /\ locals' = NoLocals
    /\ results' = NoResults
    /\ estimated_cost' = Unbound
    /\ UNCHANGED <<widgets, edits>>

Rule1 ==
    /\ pc = "rule1"
    /\ LET r == Rule1Dosage(soil_type, clay, sand)
       IN  locals' = [locals EXCEPT
                         !.primary_method = r.primary_method,
                         !.myc_percentage = r.myc_percentage,
                         !.micp_percentage = r.micp_percentage]
    /\ pc' = "rule2"
    /\ UNCHANGED <<widgets, results, estimated_cost, edits>>

Rule2 ==
    /\ pc = "rule2"
    /\ locals' = [locals EXCEPT
                     !.myc_percentage = Rule2Myc(@, moisture),
                     !.micp_percentage = Rule2Micp(@, moisture)]
    /\ pc' = "rule3"
    /\ UNCHANGED <<widgets, results, estimated_cost, edits>>

Rule3 ==
    /\ pc = "rule3"
    /\ locals' = [locals EXCEPT !.micp_percentage = Rule3Micp(@, ph)]
    /\ pc' = "rule4"
    /\ UNCHANGED <<widgets, results, estimated_cost, edits>>

\* Rule 4 writing the normalised curing time back
Rule4InPlace ==
    /\ pc = "rule4"
    /\ locals' = [locals EXCEPT
                     !.myc_percentage = RMul(@, curing_factor(curing_days)),
                     !.micp_percentage = RMul(@, curing_factor(curing_days))]
    /\ curing_days' = 28
    /\ pc' = "strength"
    /\ UNCHANGED <<soil_type, clay, silt, moisture, pi, ph, budget,
                   results, estimated_cost, edits>>

Rule4 ==
    /\ pc = "rule4"
    /\ locals' = [locals EXCEPT
                     !.myc_percentage = RMul(@, curing_factor(curing_days)),
                     !.micp_percentage = RMul(@, curing_factor(curing_days))]
    /\ pc' = "strength"
    /\ UNCHANGED <<widgets, results, estimated_cost, edits>>

\* the three empirical strength formulas
Strengths ==
    /\ pc = "strength"
    /\ locals' = [locals EXCEPT
                     !.myc_strength = MycStrength(locals.myc_percentage),
                     !.micp_strength = MicpStrength(locals.micp_percentage),
                     !.hybrid_strength = HybridStrength(locals.myc_percentage,
                                                        locals.micp_percentage)]
    /\ pc' = "max"
    /\ UNCHANGED <<widgets, results, estimated_cost, edits>>

\* max_strength = max(myc_strength, micp_strength, hybrid_strength)
MaxStrength ==
    /\ pc = "max"
    /\ locals' = [locals EXCEPT
                     !.max_strength = RMax3(locals.myc_strength,
                                            locals.micp_strength,
                                            locals.hybrid_strength)]
    /\ pc' = "select"
    /\ UNCHANGED <<widgets, results, estimated_cost, edits>>

\* the final method
Select ==
    /\ pc = "select"
    /\ locals' = SelectFinal(locals) @@ locals
    /\ pc' = "return"
    /\ UNCHANGED <<widgets, results, estimated_cost, edits>>

Return ==
    /\ pc = "return"
    /\ results' = ReturnValue(locals)
    /\ locals' = NoLocals
    /\ pc' = "cost"
    /\ UNCHANGED <<widgets, estimated_cost, edits>>

----------------------------------------------------------------------------
(* estimate_cost (lines 169-188) *)

base_cost(budget_level) ==
    CASE budget_level = "Low" -> 50
      [] budget_level = "Medium" -> 100
      [] budget_level = "High" -> 200
      [] budget_level = "No Limit" -> 300
      [] OTHER -> 100

\* the budget as a multiplier of a method-derived cost
estimate_cost_multiplier(method, myc_pct, micp_pct, budget_level) ==
    LET mult == CASE budget_level = "Low" -> R(8, 10)
                  [] budget_level = "High" -> R(15, 10)
                  [] budget_level = "No Limit" -> Whole(2)
                  [] OTHER -> Whole(1)
        cost == IF method = "Mycelium"
                THEN RAdd(Whole(100), RMul(myc_pct, Whole(2)))
                ELSE IF method = "MICP"
                THEN RAdd(Whole(100), RMul(micp_pct, Whole(10)))
                ELSE RAdd(Whole(100), RAdd(RMul(myc_pct, R(15, 10)),
                                           RMul(micp_pct, Whole(8))))
    IN  RMul(cost, mult)

estimate_cost(method, myc_pct, micp_pct, budget_level) ==
    LET cost == Whole(base_cost(budget_level))
    IN  IF method = "Mycelium"
        THEN RAdd(cost, RMul(myc_pct, Whole(2)))
        ELSE IF method = "MICP"
        THEN RAdd(cost, RMul(micp_pct, Whole(10)))
        ELSE IF method = "Hybrid"
        THEN RAdd(cost, RAdd(RMul(myc_pct, R(15, 10)),
                             RMul(micp_pct, Whole(8))))
        ELSE cost

EstimateCost ==
    /\ pc = "cost"
    /\ estimated_cost' = estimate_cost(results.final_method,
                                       results.myc_percentage,
                                       results.micp_percentage, budget)
    /\ pc' = "shown"
    /\ UNCHANGED <<widgets, locals, results, edits>>

Next ==
    \/ SetSoilType \/ SetClay \/ SetSilt \/ SetMoisture \/ SetPi \/ SetPh
    \/ SetCuringDays \/ SetBudget
    \/ ClickAnalyze
    \/ Rule1 \/ Rule2 \/ Rule3 \/ Rule4 \/ Strengths \/ MaxStrength \/ Select
    \/ Return
    \/ EstimateCost

Spec == Init /\ [][Next]_vars

----------------------------------------------------------------------------
(* One call of calculate_recommendations followed by estimate_cost, on     *)
(* arguments drawn from the sampled domains (the budget left at its        *)
(* default).                                                               *)

InitCalc ==
    /\ soil_type \in SoilTypes
    /\ clay \in ClayVals
    /\ silt \in SiltVals
    /\ moisture \in MoistureVals
    /\ pi \in PiVals
    /\ ph \in PhVals
    /\ curing_days \in CuringDays
    /\ budget = "Medium"
    /\ pc = "rule1"
    /\ locals = NoLocals
    /\ results = NoResults
    /\ estimated_cost = Unbound
    /\ edits = 0

NextCalc ==
    \/ Rule1 \/ Rule2 \/ Rule3 \/ Rule4 \/ Strengths \/ MaxStrength \/ Select
    \/ Return \/ EstimateCost

SpecCalc == InitCalc /\ [][NextCalc]_vars

----------------------------------------------------------------------------
(* Properties *)

Returned == pc \in {"cost", "shown"}

ClayLabels == {"CL (Lean Clay)", "CH (Fat Clay)"}
SandLabels == {"SM (Silty Sand)", "SP (Poorly Graded Sand)"}

\* C1: after RULE 1 and before any adjustment, primary_method and the base
\* dosages follow the prioritised rule: clay > 40 or a clay label gives
\* Mycelium with 5.0 / 0.5; otherwise sand > 60 or a sand label gives MICP
\* with 25.0 / 2.0; otherwise Hybrid with 15.0 / 1.0; and the returned
\* primary_method is the one chosen there.
C1_BaseClassification ==
    LET want ==
            IF clay > 40 \/ soil_type \in ClayLabels
            THEN <<"Mycelium", R(5, 1), R(1, 2)>>
            ELSE IF sand > 60 \/ soil_type \in SandLabels
            THEN <<"MICP", R(25, 1), R(2, 1)>>
            ELSE <<"Hybrid", R(15, 1), R(1, 1)>>
    IN  /\ pc = "rule2" =>
              <<locals.primary_method, locals.myc_percentage,
                locals.micp_percentage>> = want
        /\ Returned => results.primary_method = want[1]

\* C1 witness: a sand label with clay > 40 has been classified Mycelium
C1_Witness ==
    /\ pc = "rule2"
    /\ soil_type = "SP (Poorly Graded Sand)"
    /\ clay > 40
    /\ locals.primary_method = "Mycelium"
    /\ locals.myc_percentage = R(5, 1)

\* C2: after the selection, final_method is Hybrid with both adjusted
\* dosages kept exactly when hybrid_strength is the maximum of the three
\* strengths and a single-method strength exceeds 0.3; otherwise it is the
\* single method of higher strength (MICP on a tie) with that method's
\* strength and the other method's dosage 0.
C2_FinalSelection ==
    pc = "return" =>
        LET l == locals
            hyb == /\ l.hybrid_strength =
                          RMax3(l.myc_strength, l.micp_strength,
                                l.hybrid_strength)
                   /\ (RLt(R(3, 10), l.myc_strength)
                       \/ RLt(R(3, 10), l.micp_strength))
        IN  /\ (l.final_method = "Hybrid") <=> hyb
            /\ hyb => /\ l.final_myc = l.myc_percentage
                      /\ l.final_micp = l.micp_percentage
            /\ (~hyb /\ RLt(l.micp_strength, l.myc_strength)) =>
                   /\ l.final_method = "Mycelium"
                   /\ l.final_strength = l.myc_strength
                   /\ l.final_micp = <<0, 1>>
            /\ (~hyb /\ ~RLt(l.micp_strength, l.myc_strength)) =>
                   /\ l.final_method = "MICP"
                   /\ l.final_strength = l.micp_strength
                   /\ l.final_myc = <<0, 1>>

\* C2 witness: the hybrid strength is the maximum, no single strength
\* exceeds 0.3, and MICP has been selected with the mycelium dosage zeroed
C2_Witness ==
    /\ pc = "return"
    /\ locals.max_strength = locals.hybrid_strength
    /\ locals.final_method = "MICP"
    /\ locals.final_myc = <<0, 1>>
    /\ locals.myc_percentage # <<0, 1>>

\* C3 as stated: the returned final_strength is always the largest of the
\* three candidate strengths.
C3_FinalStrengthIsMax ==
    Returned =>
        results.final_strength =
            RMax3(results.myc_strength, results.micp_strength,
                  results.hybrid_strength)

\* C3 amended: the returned final_strength is the largest of the three
\* candidate strengths when final_method is Hybrid, and otherwise the larger
\* of the two single-method strengths.
C3_FinalStrengthOfMethod ==
    Returned =>
        IF results.final_method = "Hybrid"
        THEN results.final_strength =
                 RMax3(results.myc_strength, results.micp_strength,
                       results.hybrid_strength)
        ELSE results.final_strength =
                 RMax(results.myc_strength, results.micp_strength)

\* C3 witness: a single method is returned with a strength below the hybrid's
C3_Witness ==
    /\ Returned
    /\ results.final_method = "MICP"
    /\ RLt(results.final_strength, results.hybrid_strength)

\* C4: after RULE 4 the mycelium dosage is the base dosage times 0.8 (only
\* if moisture > 25) times curing_days / 28, and the MICP dosage is the base
\* dosage times 1.2 (only if moisture < 10) times 1.3 (only if
\* 6.5 <= ph <= 8.5) times curing_days / 28.
C4_DosageAdjustment ==
    pc = "strength" =>
        LET base == CASE locals.primary_method = "Mycelium" -> <<R(5, 1), R(1, 2)>>
                      [] locals.primary_method = "MICP" -> <<R(25, 1), R(2, 1)>>
                      [] locals.primary_method = "Hybrid" -> <<R(15, 1), R(1, 1)>>
            wet == IF moisture > 25 THEN R(4, 5) ELSE R(1, 1)
            dry == IF moisture < 10 THEN R(6, 5) ELSE R(1, 1)
            neutral == IF ph[1] * 10 >= 65 * ph[2] /\ ph[1] * 10 <= 85 * ph[2]
                       THEN R(13, 10) ELSE R(1, 1)
        IN  /\ locals.myc_percentage =
                   R(base[1][1] * wet[1] * curing_days,
                     base[1][2] * wet[2] * 28)
            /\ locals.micp_percentage =
                   R(base[2][1] * dry[1] * neutral[1] * curing_days,
                     base[2][2] * dry[2] * neutral[2] * 28)

\* C4 witness: the adjustment has run at moisture = 25 and ph = 8.5
C4_Witness ==
    /\ pc = "strength"
    /\ moisture = 25
    /\ ph = <<17, 2>>
    /\ curing_days = 56
    /\ locals.myc_percentage = R(10, 1)

\* C5: the returned improvement is (final_strength - 0.225) / 0.225 * 100
\* for the final_strength of the same result, and base_strength is 0.225.
C5_Improvement ==
    Returned =>
        /\ results.base_strength = <<9, 40>>
        /\ LET d == RSub(results.final_strength, <<9, 40>>)
           IN  results.improvement = R(d[1] * 40 * 100, d[2] * 9)

\* C5 witness: a single-method result with a positive improvement
C5_Witness ==
    /\ Returned
    /\ results.final_method = "MICP"
    /\ RLt(results.final_strength, results.hybrid_strength)
    /\ RLt(<<0, 1>>, results.improvement)

\* C6: for every method and the dosages at hand, the cost is the tier's base
\* cost (50, 100, 200, 300) plus a term that is the same for every tier, so
\* Low < Medium < High; the cost shown is the one of the selected tier.
C6_CostMonotone ==
    pc = "shown" =>
        /\ \A m \in Methods :
              LET c(b) == estimate_cost(m, results.myc_percentage,
                                        results.micp_percentage, b)
                  marginal == RSub(c("Low"), <<50, 1>>)
              IN  /\ RLt(c("Low"), c("Medium"))
                  /\ RLt(c("Medium"), c("High"))
                  /\ c("Low") = RAdd(<<50, 1>>, marginal)
                  /\ c("Medium") = RAdd(<<100, 1>>, marginal)
                  /\ c("High") = RAdd(<<200, 1>>, marginal)
                  /\ c("No Limit") = RAdd(<<300, 1>>, marginal)
                  /\ RLe(<<0, 1>>, marginal)
        /\ LET shownBase == CASE budget = "Low" -> 50
                              [] budget = "Medium" -> 100
                              [] budget = "High" -> 200
                              [] budget = "No Limit" -> 300
               term == RSub(estimate_cost(results.final_method,
                                          results.myc_percentage,
                                          results.micp_percentage, "Low"),
                            <<50, 1>>)
           IN  estimated_cost = RAdd(<<shownBase, 1>>, term)

\* C6 witness: a Hybrid result costed at the High tier
C6_Witness ==
    /\ pc = "shown"
    /\ budget = "High"
    /\ results.final_method = "Hybrid"
    /\ RLt(<<200, 1>>, estimated_cost)

\* C7 as stated: clay = 30 and silt = 40 give primary_method Hybrid for
\* every soil-type label.
C7_MixedRuleAnyLabel ==
    (Returned /\ clay = 30 /\ silt = 40) => results.primary_method = "Hybrid"

\* C7 amended: clay = 30 and silt = 40 give primary_method Hybrid exactly
\* for the label "ML (Silt)", which has neither marker; the two clay labels
\* give Mycelium and the two sand labels give MICP, for every moisture, pH,
\* plasticity index and curing time.
C7_MixedRule ==
    (Returned /\ clay = 30 /\ silt = 40) =>
        /\ (results.primary_method = "Hybrid") <=> (soil_type = "ML (Silt)")
        /\ soil_type \in ClayLabels => results.primary_method = "Mycelium"
        /\ soil_type \in SandLabels => results.primary_method = "MICP"

\* C7 witness: the mixed sample with the silt label came out Hybrid
C7_Witness ==
    /\ Returned
    /\ clay = 30 /\ silt = 40 /\ sand = 30
    /\ soil_type = "ML (Silt)"
    /\ results.primary_method = "Hybrid"

\* C8: whatever ran before, the record an invocation returns and the cost
\* computed from it are the values of fixed functions of that invocation's
\* arguments, and the invocation leaves those arguments as they were.
C8_Deterministic ==
    /\ Returned =>
           results = calculate_recommendations(clay, silt, sand, moisture, pi,
                                               ph, soil_type, curing_days)
    /\ pc = "shown" =>
           estimated_cost =
               estimate_cost(results.final_method, results.myc_percentage,
                             results.micp_percentage, budget)

\* C8 witness: a result is shown for arguments other than the first ones
C8_Witness ==
    /\ pc = "shown"
    /\ curing_days # 28
    /\ soil_type # "CL (Lean Clay)"
    /\ moisture # 13
    /\ results.final_method = "Hybrid"

\* C9: micp_strength is strictly greater than myc_strength, so Mycelium is
\* never the final method and the returned micp_percentage is never 0.
C9_NeverMycelium ==
    /\ pc = "return" =>
           /\ RLt(locals.myc_strength, locals.micp_strength)
           /\ locals.final_method \in {"MICP", "Hybrid"}
    /\ Returned =>
           /\ RLt(results.myc_strength, results.micp_strength)
           /\ results.final_method \in {"MICP", "Hybrid"}
           /\ results.micp_percentage # <<0, 1>>
           /\ RLt(<<0, 1>>, results.micp_percentage)

\* C9 witness: a sample whose primary method is Mycelium ended as MICP
C9_Witness ==
    /\ Returned
    /\ results.primary_method = "Mycelium"
    /\ results.final_method = "MICP"
    /\ RLt(<<0, 1>>, results.micp_percentage)

\* C10: hybrid_strength is strictly greater than both single-method
\* strengths, so final_method is Hybrid exactly when a single-method
\* strength exceeds 0.3, and otherwise the result is a single method whose
\* final_strength is strictly below hybrid_strength.
C10_HybridAlwaysMax ==
    Returned =>
        LET over == RLt(<<3, 10>>, results.myc_strength)
                    \/ RLt(<<3, 10>>, results.micp_strength)
        IN  /\ RLt(results.myc_strength, results.hybrid_strength)
            /\ RLt(results.micp_strength, results.hybrid_strength)
            /\ (results.final_method = "Hybrid") <=> over
            /\ ~over => /\ results.final_method \in {"Mycelium", "MICP"}
                        /\ RLt(results.final_strength,
                               results.hybrid_strength)

\* C10 witness: Hybrid returned on the strength of MICP alone
C10_Witness ==
    /\ Returned
    /\ results.final_method = "Hybrid"
    /\ RLe(results.myc_strength, <<3, 10>>)
    /\ RLt(<<3, 10>>, results.micp_strength)

====
